---- MODULE Spec2Model ----
(***************************************************************************)
(* TOON codec (src/toon.cpp): the encoder `dump` and the recursive-descent *)
(* decoder `Toon::parse`.                                                  *)
(*                                                                         *)
(* Text is a sequence of bytes.  A byte is written as a one-character      *)
(* string ("a", ":", "\n"); the bytes that have no TLA+ spelling are the   *)
(* atoms "NUL" (0x00), "SOH" (0x01), "BS" (0x08, C's '\b') and "GRAVE"     *)
(* (0x60).                                                                 *)
(* Offsets into text are 0-based, as in the C++ code.                      *)
(***************************************************************************)
EXTENDS Integers, Sequences, FiniteSets, TLC

VARIABLES
    mode,     \* "value": the caller encodes `v` and decodes the text; "text": the caller
              \* decodes `str`; "dump": the caller encodes `v` at `level`
    v,        \* the Value tree handed to dump (Null when mode = "text")
    level,    \* the indentation level handed to dump
    str,      \* ToonParser::str, the input text of the running parse call (the dump output in mode "value")
    i,        \* ToonParser::i, the 0-based offset
    err,      \* the caller's error string (ToonParser::err is a reference to it)
    failed,   \* ToonParser::failed
    stack,    \* the active parse_array / parse_object frames, innermost last
    ret,      \* the value a finished call hands to its caller: [has, val]
    result,   \* the Value Toon::parse returned
    pc,       \* "start", "built", "dumped", "parsing", "done"
    fails,    \* history: the messages passed to fail() during the running parse call
    list      \* the initializer list {{k1, v1}, ...} a Toon::object is constructed from

vars == <<mode, v, level, str, i, err, failed, stack, ret, result, pc, fails, list>>

(***************************************************************************)
(* Bytes                                                                   *)
(***************************************************************************)
Digits == <<"0", "1", "2", "3", "4", "5", "6", "7", "8", "9">>

HexDigits == <<"0", "1", "2", "3", "4", "5", "6", "7", "8", "9", "a", "b", "c", "d", "e", "f">>

\* the printable ASCII bytes 0x20 .. 0x7e in byte order
Printable ==
    <<
       " ", "!", "\"", "#", "$", "%", "&", "'", "(", ")", "*", "+", ",", "-", ".", "/",
       "0", "1", "2", "3", "4", "5", "6", "7", "8", "9", ":", ";", "<", "=", ">", "?",
       "@", "A", "B", "C", "D", "E", "F", "G", "H", "I", "J", "K", "L", "M", "N", "O",
       "P", "Q", "R", "S", "T", "U", "V", "W", "X", "Y", "Z", "[", "\\", "]", "^", "_",
       "GRAVE", "a", "b", "c", "d", "e", "f", "g", "h", "i", "j", "k", "l", "m", "n", "o",
       "p", "q", "r", "s", "t", "u", "v", "w", "x", "y", "z", "{", "|", "}", "~" >>

\* The byte value of a byte of the model; std::string compares bytes as unsigned.
Ord ==
    [c \in {"NUL", "SOH", "BS", "\t", "\n", "\f", "\r"} \cup {Printable[n] : n \in 1..Len(Printable)} |->
        CASE c = "NUL" -> 0 [] c = "SOH" -> 1 [] c = "BS" -> 8 [] c = "\t" -> 9 [] c = "\n" -> 10
          [] c = "\f" -> 12 [] c = "\r" -> 13
          [] OTHER -> 31 + (CHOOSE n \in 1..Len(Printable) : Printable[n] = c)]

isdigit(c) == \E d \in 1..10 : Digits[d] = c

DigitVal(c) == (CHOOSE d \in 1..10 : Digits[d] = c) - 1

\* C's isspace in the "C" locale, restricted to the bytes of the model
isspace(c) == c \in {" ", "\t", "\n", "\f", "\r"}

\* const string special = ",:\n[]{}#"
special == {",", ":", "\n", "[", "]", "{", "}", "#"}

\* str[k] for 0 <= k <= size; a const std::string yields '\0' at k = size
At(s, k) == IF k < Len(s) THEN s[k + 1] ELSE "NUL"

\* s.substr(from) as a sequence
Drop(s, from) == SubSeq(s, from + 1, Len(s))

\* str.compare(k, Len(word), word) == 0
compare(s, k, word) ==
    /\ k + Len(word) <= Len(s)
    /\ SubSeq(s, k + 1, k + Len(word)) = word

RECURSIVE StrLess(_, _)
\* std::less<std::string>: byte-wise lexicographic order (the order of std::map keys)
StrLess(a, b) ==
    IF b = <<>> THEN FALSE
    ELSE IF a = <<>> THEN TRUE
    ELSE IF a[1] # b[1] THEN Ord[a[1]] < Ord[b[1]]
    ELSE StrLess(Tail(a), Tail(b))

(***************************************************************************)
(* Values (toon.h: enum Type { NUL, NUMBER, BOOL, STRING, ARRAY, OBJECT }) *)
(* A double is the decimal m * 10^e, normalised so that 10 does not divide *)
(* m (and e = 0 when m = 0).                                               *)
(***************************************************************************)
Null == [t |-> "NUL"]

ToonBool(b) == [t |-> "BOOL", b |-> b]

ToonInt(n) == [t |-> "NUMBER", k |-> "int", n |-> n]

RECURSIVE Norm(_, _)
Norm(m, e) ==
    IF m = 0 THEN [m |-> 0, e |-> 0]
    ELSE IF m % 10 = 0 THEN Norm(m \div 10, e + 1)
    ELSE [m |-> m, e |-> e]

ToonDouble(m, e) == [t |-> "NUMBER", k |-> "double", m |-> Norm(m, e).m, e |-> Norm(m, e).e]

ToonString(s) == [t |-> "STRING", s |-> s]

ToonArray(a) == [t |-> "ARRAY", a |-> a]

ToonObject(o) == [t |-> "OBJECT", o |-> o]

\* obj[key] = val on a std::map: the last write wins
Assign(o, key, val) == (key :> val) @@ o

RECURSIVE MakeObject(_)
\* Toon::object{{k1, v1}, {k2, v2}, ...}: std::map's initializer-list constructor
\* inserts in order and keeps the first entry of a repeated key
MakeObject(pairs) ==
    IF pairs = <<>> THEN <<>>
    ELSE MakeObject(SubSeq(pairs, 1, Len(pairs) - 1))
           @@ (pairs[Len(pairs)][1] :> pairs[Len(pairs)][2])

RECURSIVE SortSet(_)
SortSet(S) ==
    IF S = {} THEN <<>>
    ELSE LET m == CHOOSE x \in S : \A y \in S : x = y \/ StrLess(x, y)
         IN  <<m>> \o SortSet(S \ {m})

\* fault variant: a map that iterates in descending key order
object_items_descending(o) ==
    LET s == SortSet(DOMAIN o) IN [n \in 1..Len(s) |-> s[Len(s) + 1 - n]]

\* the iteration order of a std::map<std::string, Toon>: ascending keys
object_items(o) == SortSet(DOMAIN o)

(***************************************************************************)
(* strtod in the "C" locale: the number of bytes converted (0: none) and   *)
(* the value.  Decimal forms and inf/infinity/nan are modelled; the        *)
(* hexadecimal form needs an 'x' or 'X' after a leading 0, the nan(...)    *)
(* form a '(' after nan, and no text given to strtod here contains them.   *)
(***************************************************************************)
RECURSIVE DigitRun(_, _)
\* the offset after the maximal run of digits starting at k
DigitRun(s, k) == IF k < Len(s) /\ isdigit(s[k + 1]) THEN DigitRun(s, k + 1) ELSE k

RECURSIVE SpaceRun(_, _)
SpaceRun(s, k) == IF k < Len(s) /\ isspace(s[k + 1]) THEN SpaceRun(s, k + 1) ELSE k

RECURSIVE DigitsValue(_, _, _, _)
\* the integer written by the digits among s[from .. to-1] (a '.' among them is skipped), appended to acc
DigitsValue(s, from, to, acc) ==
    IF from >= to THEN acc
    ELSE IF isdigit(s[from + 1]) THEN DigitsValue(s, from + 1, to, acc * 10 + DigitVal(s[from + 1]))
    ELSE DigitsValue(s, from + 1, to, acc)

\* tolower
Lower(c) ==
    IF c \in DOMAIN Ord /\ Ord[c] >= 65 /\ Ord[c] <= 90 THEN Printable[Ord[c] + 32 - 31] ELSE c

MatchCI(s, k, word) ==
    /\ k + Len(word) <= Len(s)
    /\ \A j \in 1..Len(word) : Lower(s[k + j]) = word[j]

strtod(s) ==
    LET p0    == SpaceRun(s, 0)
        neg   == At(s, p0) = "-"
        p1    == IF At(s, p0) \in {"-", "+"} THEN p0 + 1 ELSE p0
        ip    == DigitRun(s, p1)                       \* end of the integer part
        fp    == IF At(s, ip) = "." THEN DigitRun(s, ip + 1) ELSE ip
        nint  == ip - p1
        nfrac == IF fp > ip THEN fp - ip - 1 ELSE 0
        some  == nint + nfrac > 0                      \* at least one digit
        ep    == IF At(s, fp) \in {"e", "E"}
                 THEN IF At(s, fp + 1) \in {"-", "+"} THEN fp + 2 ELSE fp + 1
                 ELSE fp
        ee    == DigitRun(s, ep)
        hasE  == ep > fp /\ ee > ep
        eneg  == At(s, fp + 1) = "-"
        expo  == IF hasE THEN DigitsValue(s, ep, ee, 0) ELSE 0
        mant  == DigitsValue(s, p1, fp, 0)
        dec   == Norm(IF neg THEN 0 - mant ELSE mant,
                      (IF eneg THEN 0 - expo ELSE expo) - nfrac)
    IN  IF some
        THEN [end |-> IF hasE THEN ee ELSE fp, kind |-> "finite", m |-> dec.m, e |-> dec.e]
        ELSE IF MatchCI(s, p1, <<"i", "n", "f", "i", "n", "i", "t", "y">>)
        THEN [end |-> p1 + 8, kind |-> "inf", m |-> 0, e |-> 0]
        ELSE IF MatchCI(s, p1, <<"i", "n", "f">>)
        THEN [end |-> p1 + 3, kind |-> "inf", m |-> 0, e |-> 0]
        ELSE IF MatchCI(s, p1, <<"n", "a", "n">>)
        THEN [end |-> p1 + 3, kind |-> "nan", m |-> 0, e |-> 0]
        ELSE [end |-> 0, kind |-> "finite", m |-> 0, e |-> 0]

RECURSIVE c_str(_)
\* value.c_str() as C functions read it: the bytes before the first 0x00
c_str(s) == IF s = <<>> \/ s[1] = "NUL" THEN <<>> ELSE <<s[1]>> \o c_str(Tail(s))

(***************************************************************************)
(* Encoder                                                                 *)
(***************************************************************************)
RECURSIVE IntDigits(_)
IntDigits(n) == IF n < 10 THEN <<Digits[n + 1]>> ELSE IntDigits(n \div 10) \o <<Digits[(n % 10) + 1]>>

\* snprintf(buf, sizeof buf, "%d", value) and std::to_string(size)
dump_int(n) == IF n < 0 THEN <<"-">> \o IntDigits(0 - n) ELSE IntDigits(n)

RECURSIVE Zeros(_)
Zeros(n) == IF n <= 0 THEN <<>> ELSE <<"0">> \o Zeros(n - 1)

\* snprintf(buf, sizeof buf, "%.17g", value) for a finite, integer-valued double of
\* fewer than 17 digits (the doubles of the model): its digits, no point, no exponent
dump_double(m, e) == dump_int(m) \o (IF m = 0 THEN <<>> ELSE Zeros(e))

dump_null == <<"n", "u", "l", "l">>

dump_bool(b) == IF b THEN <<"t", "r", "u", "e">> ELSE <<"f", "a", "l", "s", "e">>

\* fault variant: the keywords null, true and false are not quoted
needs_quoting_no_keywords(value) ==
    \/ value = <<>>
    \/ /\ isdigit(value[1]) \/ value[1] = "-"
       /\ strtod(c_str(value)).end = Len(c_str(value))
    \/ \E k \in 1..Len(value) : value[k] \in special

needs_quoting(value) ==
    \/ value = <<>>
    \/ value \in {<<"n", "u", "l", "l">>, <<"t", "r", "u", "e">>, <<"f", "a", "l", "s", "e">>}
    \/ /\ isdigit(value[1]) \/ value[1] = "-"
       /\ strtod(c_str(value)).end = Len(c_str(value))
    \/ \E k \in 1..Len(value) : value[k] \in special

\* snprintf(buf, sizeof buf, "\\u%04x", ch) for ch <= 0x1f
Hex4(c) ==
    <<"\\", "u", "0", "0", HexDigits[(Ord[c] \div 16) + 1], HexDigits[(Ord[c] % 16) + 1]>>

EscapeChar(ch) ==
    IF ch = "\\" THEN <<"\\", "\\">>
    ELSE IF ch = "\"" THEN <<"\\", "\"">>
    ELSE IF ch = "BS" THEN <<"\\", "b">>
    ELSE IF ch = "\f" THEN <<"\\", "f">>
    ELSE IF ch = "\n" THEN <<"\\", "n">>
    ELSE IF ch = "\r" THEN <<"\\", "r">>
    ELSE IF ch = "\t" THEN <<"\\", "t">>
    ELSE IF Ord[ch] <= 31 THEN Hex4(ch)
    ELSE <<ch>>

RECURSIVE EscapeAll(_)
EscapeAll(value) == IF value = <<>> THEN <<>> ELSE EscapeChar(value[1]) \o EscapeAll(Tail(value))

dump_string(value) ==
    IF ~needs_quoting(value) THEN value
    ELSE <<"\"">> \o EscapeAll(value) \o <<"\"">>

RECURSIVE indent(_)
indent(lvl) == IF lvl <= 0 THEN <<>> ELSE <<" ", " ">> \o indent(lvl - 1)

is_object(x) == x.t = "OBJECT"

is_array(x) == x.t = "ARRAY"

\* fault variant: the tabular form is chosen for objects without keys as well
tabular_form_any_keys(values) ==
    /\ is_object(values[1])
    /\ \A n \in 2..Len(values) :
        /\ is_object(values[n])
        /\ DOMAIN values[n].o = DOMAIN values[1].o

\* the test of lines 178-203: the first element is an object, every other element is an
\* object with as many entries and with every key of the first, and there is a key
tabular_form(values) ==
    LET keys == IF is_object(values[1]) THEN object_items(values[1].o) ELSE <<>>
        all_objects ==
            /\ is_object(values[1])
            /\ \A n \in 2..Len(values) :
                /\ is_object(values[n])
                /\ Cardinality(DOMAIN values[n].o) = Len(keys)
                /\ \A j \in 1..Len(keys) : keys[j] \in DOMAIN values[n].o
    IN  all_objects /\ keys # <<>>

RECURSIVE dump(_, _)

\* out += keys[0] + ", " + keys[1] ... (lines 205-209)
JoinKeys(keys) ==
    LET f[n \in 0..Len(keys)] ==
            IF n = 0 THEN <<>>
            ELSE f[n - 1] \o keys[n] \o (IF n < Len(keys) THEN <<",", " ">> ELSE <<>>)
    IN  f[Len(keys)]

dump_row(obj, keys, lvl) ==
    LET f[j \in 0..Len(keys)] ==
            IF j = 0 THEN <<>>
            ELSE f[j - 1] \o dump(obj[keys[j]], lvl + 1)
                          \o (IF j < Len(keys) THEN <<",", " ">> ELSE <<>>)
    IN  indent(lvl + 1) \o f[Len(keys)]

dump_tabular(values, lvl) ==
    LET keys == object_items(values[1].o)
        rows[n \in 0..Len(values)] ==
            IF n = 0 THEN <<>>
            ELSE rows[n - 1] \o dump_row(values[n].o, keys, lvl)
                             \o (IF n < Len(values) THEN <<"\n">> ELSE <<>>)
    IN  <<"[", "{">> \o JoinKeys(keys) \o <<"}", "]", ":", "\n">> \o rows[Len(values)]

dump_verbose(values, lvl) ==
    LET f[n \in 0..Len(values)] ==
            IF n = 0 THEN <<>>
            ELSE f[n - 1] \o dump(values[n], lvl)
                          \o (IF n < Len(values) THEN <<",", " ">> ELSE <<>>)
    IN  <<"[">> \o dump_int(Len(values)) \o <<"]", ":", " ">> \o f[Len(values)]

dump_array_body(values, lvl) ==
    IF tabular_form(values) THEN dump_tabular(values, lvl) ELSE dump_verbose(values, lvl)

\* fault variant: the empty array is written with the separator of the verbose form
dump_array_trailing_space(values, lvl) ==
    IF values = <<>> THEN <<"[", "0", "]", ":", " ">> ELSE dump_array_body(values, lvl)

dump_array(values, lvl) ==
    IF values = <<>> THEN <<"[", "0", "]", ":">> ELSE dump_array_body(values, lvl)

\* one iteration of the loop of lines 236-253 for the n-th key in map order
dump_entry(values, keys, n, lvl) ==
    LET val == values[keys[n]]
    IN  (IF n > 1 THEN <<"\n">> \o indent(lvl) ELSE <<>>)
        \o keys[n] \o <<":", " ">>
        \o (IF is_object(val) THEN <<"\n">> \o indent(lvl + 1) \o dump(val, lvl + 1)
            ELSE IF is_array(val) THEN dump(val, lvl + 1)
            ELSE dump(val, lvl))

dump_object(values, lvl) ==
    LET keys == object_items(values)
        f[n \in 0..Len(keys)] ==
            IF n = 0 THEN <<>> ELSE f[n - 1] \o dump_entry(values, keys, n, lvl)
    IN  f[Len(keys)]

\* Toon::dump(out, level): m_ptr->dump(out, level), by the type of the value
dump(x, lvl) ==
    CASE x.t = "NUL"    -> dump_null
      [] x.t = "BOOL"   -> dump_bool(x.b)
      [] x.t = "NUMBER" -> IF x.k = "int" THEN dump_int(x.n) ELSE dump_double(x.m, x.e)
      [] x.t = "STRING" -> dump_string(x.s)
      [] x.t = "ARRAY"  -> dump_array(x.a, lvl)
      [] x.t = "OBJECT" -> dump_object(x.o, lvl)

(***************************************************************************)
(* Decoder: the parts of ToonParser that call nothing that can recurse.    *)
(* They are functions of the text and the offset; a failing one reports    *)
(* the message it passes to fail() in `msg` ("" when it does not fail).    *)
(***************************************************************************)
RECURSIVE consume_whitespace(_, _)
consume_whitespace(s, k) ==
    IF k < Len(s) /\ s[k + 1] \in {" ", "\r", "\t"} THEN consume_whitespace(s, k + 1) ELSE k

RECURSIVE SkipLine(_, _)
\* while (i < str.size() && str[i] != '\n') i++;
SkipLine(s, k) == IF k < Len(s) /\ s[k + 1] # "\n" THEN SkipLine(s, k + 1) ELSE k

RECURSIVE consume_garbage(_, _)
consume_garbage(s, k) ==
    LET w == consume_whitespace(s, k)
    IN  IF w < Len(s) /\ s[w + 1] = "#" THEN consume_garbage(s, SkipLine(s, w))
        ELSE IF w < Len(s) /\ s[w + 1] = "\n" THEN consume_garbage(s, w + 1)
        ELSE w

RECURSIVE LineStart(_, _)
\* while (start > 0 && str[start - 1] != '\n') start--;
LineStart(s, k) == IF k > 0 /\ s[k] # "\n" THEN LineStart(s, k - 1) ELSE k

RECURSIVE IndentCount(_, _)
IndentCount(s, k) ==
    IF k < Len(s) /\ s[k + 1] \in {" ", "\t"}
    THEN (IF s[k + 1] = "\t" THEN 8 ELSE 1) + IndentCount(s, k + 1)
    ELSE 0

\* fault variant: the indentation is counted from the offset, not from the start of the line
get_indent_from_offset(s, k) == IndentCount(s, k)

get_indent(s, k) == IndentCount(s, LineStart(s, k))

HexVal(c) ==
    IF isdigit(c) THEN DigitVal(c)
    ELSE IF c \in {"a", "b", "c", "d", "e", "f"} THEN Ord[c] - 97 + 10
    ELSE IF c \in {"A", "B", "C", "D", "E", "F"} THEN Ord[c] - 65 + 10
    ELSE -1

RECURSIVE HexLoop(_, _, _, _)
\* the for loop of parse_unicode_codepoint, j iterations done
HexLoop(s, k, j, val) ==
    IF j = 4 THEN [val |-> val, i |-> k, msg |-> ""]
    ELSE IF HexVal(At(s, k)) < 0 THEN [val |-> 0, i |-> k + 1, msg |-> "invalid unicode escape"]
    ELSE HexLoop(s, k + 1, j + 1, val * 16 + HexVal(At(s, k)))

\* helper_toon::parse_unicode_codepoint(str, i, err); parse_quoted_string calls it with i
\* at the 'u' of the escape
parse_unicode_codepoint(s, k) ==
    IF k + 4 >= Len(s) THEN [val |-> 0, i |-> k, msg |-> "unfinished unicode escape"]
    ELSE HexLoop(s, k, 0, 0)

\* helper_toon::encode_utf8 for the code points that are one byte of the model; any
\* other code point is written as the atom "UTF8"
encode_utf8(cp) ==
    IF \E c \in DOMAIN Ord : Ord[c] = cp
    THEN <<CHOOSE c \in DOMAIN Ord : Ord[c] = cp>>
    ELSE <<"UTF8">>

RECURSIVE QuotedLoop(_, _, _)
\* the while loop of parse_quoted_string and what follows it
QuotedLoop(s, k, out) ==
    IF k < Len(s) /\ s[k + 1] # "\""
    THEN IF s[k + 1] = "\\"
         THEN LET k1 == k + 1
                  u  == IF At(s, k1) = "u" THEN parse_unicode_codepoint(s, k1)
                        ELSE [val |-> 0, i |-> k1, msg |-> ""]
                  out1 == IF At(s, k1) = "u" THEN out \o encode_utf8(u.val) ELSE out
                  esc == At(s, u.i)
              IN  IF u.msg # "" THEN [val |-> Null, i |-> u.i, msg |-> u.msg]
                  ELSE IF u.i = Len(s) THEN [val |-> Null, i |-> u.i, msg |-> "unfinished escape"]
                  ELSE IF esc = "n" THEN QuotedLoop(s, u.i + 1, out1 \o <<"\n">>)
                  ELSE IF esc = "r" THEN QuotedLoop(s, u.i + 1, out1 \o <<"\r">>)
                  ELSE IF esc = "t" THEN QuotedLoop(s, u.i + 1, out1 \o <<"\t">>)
                  ELSE IF esc \in {"\"", "\\"} THEN QuotedLoop(s, u.i + 1, out1 \o <<esc>>)
                  ELSE [val |-> Null, i |-> u.i + 1, msg |-> "invalid escape"]
         ELSE QuotedLoop(s, k + 1, out \o <<s[k + 1]>>)
    ELSE IF k = Len(s) THEN [val |-> Null, i |-> k, msg |-> "unfinished string"]
    ELSE [val |-> ToonString(out), i |-> k + 1, msg |-> ""]

\* called with i at the opening quote
parse_quoted_string(s, k) == QuotedLoop(s, k + 1, <<>>)

RECURSIVE UnquotedEnd(_, _)
UnquotedEnd(s, k) == IF k < Len(s) /\ s[k + 1] \notin special THEN UnquotedEnd(s, k + 1) ELSE k

RECURSIVE TrimRight(_, _)
\* out.find_last_not_of(set) and erase(last + 1); a string made of bytes of `set` only
\* is left as it is
TrimRight(out, set) ==
    IF \A n \in 1..Len(out) : out[n] \in set THEN out
    ELSE IF out[Len(out)] \in set THEN TrimRight(SubSeq(out, 1, Len(out) - 1), set)
    ELSE out

parse_unquoted_string(s, k) ==
    LET e == UnquotedEnd(s, k)
    IN  [val |-> ToonString(TrimRight(SubSeq(s, k + 1, e), {" ", "\t", "\r"})), i |-> e, msg |-> ""]

RECURSIVE NumberEnd(_, _)
NumberEnd(s, k) ==
    IF k < Len(s) /\ (isdigit(s[k + 1]) \/ s[k + 1] \in {".", "-", "e", "E"})
    THEN NumberEnd(s, k + 1) ELSE k

parse_number(s, k) ==
    LET e == NumberEnd(s, k)
        d == strtod(SubSeq(s, k + 1, e))
    IN  [val |-> ToonDouble(d.m, d.e), i |-> e, msg |-> ""]

\* parse_value for every first byte but '[' (parse_array is entered by the step ValueCall)
parse_value(s, k0) ==
    LET k  == consume_whitespace(s, k0)
        ch == At(s, k)
    IN  IF k = Len(s) THEN [val |-> Null, i |-> k, msg |-> "unexpected end of input"]
        ELSE IF ch = "\"" THEN parse_quoted_string(s, k)
        ELSE IF compare(s, k, <<"n", "u", "l", "l">>) THEN [val |-> Null, i |-> k + 4, msg |-> ""]
        ELSE IF compare(s, k, <<"t", "r", "u", "e">>) THEN [val |-> ToonBool(TRUE), i |-> k + 4, msg |-> ""]
        ELSE IF compare(s, k, <<"f", "a", "l", "s", "e">>) THEN [val |-> ToonBool(FALSE), i |-> k + 5, msg |-> ""]
        ELSE IF isdigit(ch) \/ ch = "-" THEN parse_number(s, k)
        ELSE parse_unquoted_string(s, k)

\* key.substr(first, last - first + 1) with first/last the first and last byte that is
\* not a space; <<>> when there is none
TrimSpaces(key) ==
    IF \A n \in 1..Len(key) : key[n] = " " THEN <<>>
    ELSE LET first == CHOOSE n \in 1..Len(key) : key[n] # " " /\ \A q \in 1..(n - 1) : key[q] = " "
             last  == CHOOSE n \in 1..Len(key) : key[n] # " " /\ \A q \in (n + 1)..Len(key) : key[q] = " "
         IN  SubSeq(key, first, last)

RECURSIVE HeaderKeyEnd(_, _)
\* while (i < str.size() && str[i] != ',' && str[i] != '}') key += str[i++];
HeaderKeyEnd(s, k) == IF k < Len(s) /\ s[k + 1] \notin {",", "}"} THEN HeaderKeyEnd(s, k + 1) ELSE k

RECURSIVE HeaderKeys(_, _, _)
\* the loop of lines 592-606: the keys of a tabular header
HeaderKeys(s, k, keys) ==
    IF k < Len(s) /\ s[k + 1] # "}"
    THEN LET w   == consume_whitespace(s, k)
             e   == HeaderKeyEnd(s, w)
             key == SubSeq(s, w + 1, e)
             ks  == IF TrimSpaces(key) # <<>> THEN Append(keys, TrimSpaces(key)) ELSE keys
         IN  HeaderKeys(s, IF e < Len(s) /\ s[e + 1] = "," THEN e + 1 ELSE e, ks)
    ELSE [keys |-> keys, i |-> k]

RECURSIVE SkipToBracket(_, _)
\* while (i < str.size() && str[i] != ']') i++;
SkipToBracket(s, k) == IF k < Len(s) /\ s[k + 1] # "]" THEN SkipToBracket(s, k + 1) ELSE k

\* parse_array up to the body (lines 583-623), called with i at the '['
array_header(s, k0) ==
    LET k   == k0 + 1
        tab == k < Len(s) /\ s[k + 1] = "{"
        hk  == HeaderKeys(s, k + 1, <<>>)
        k1  == IF tab THEN (IF hk.i < Len(s) THEN hk.i + 1 ELSE hk.i) ELSE DigitRun(s, k)
        cnt == IF ~tab /\ k1 > k THEN DigitsValue(s, k, k1, 0) ELSE -1
        b   == SkipToBracket(s, k1)
        k2  == IF b < Len(s) THEN b + 1 ELSE b
        k3  == IF k2 < Len(s) /\ s[k2 + 1] = ":" THEN k2 + 1 ELSE k2
    IN  [tabular |-> tab, keys |-> IF tab THEN hk.keys ELSE <<>>, count |-> cnt, i |-> k3]

(***************************************************************************)
(* Bounds                                                                  *)
(***************************************************************************)
\* the longest generated string value
MaxStrLen == 3

\* the longest generated array
MaxArrLen == 2

\* the most fragments a generated input text is made of
MaxFrags == 4

\* the deepest indentation level handed to dump
MaxLevel == 2

\* the longest initializer list an object is constructed from
MaxPairs == 3

\* the most rows the tabular loop appends (a header without keys never ends it)
MaxRows == 8

(***************************************************************************)
(* Decoder: the calls that can recurse (parse_value into parse_array,      *)
(* parse_array into parse_value, parse_object into all three) run as       *)
(* frames on `stack`; one step runs a frame from one call to the next.     *)
(***************************************************************************)
NoRet == [has |-> FALSE, val |-> Null]

\* the locals of a call; `start` is history: the offset at the head of the running turn
\* of the call's loop
ArrayFrame(parent) ==
    [fn |-> "array", pc |-> "header", parent_indent |-> parent, tabular |-> FALSE,
     keys |-> <<>>, count |-> -1, arr |-> <<>>, obj |-> <<>>, j |-> 0, k |-> 0, start |-> 0]

ObjectFrame(parent) ==
    [fn |-> "object", pc |-> "loop", parent_indent |-> parent, obj |-> <<>>, key |-> <<>>,
     start |-> 0]

Top == stack[Len(stack)]

Below == SubSeq(stack, 1, Len(stack) - 1)

InFrame(fn, at) == pc = "parsing" /\ stack # <<>> /\ Top.fn = fn /\ Top.pc = at

\* fault variant: every failure overwrites the recorded message
fail_overwrite(msg) == msg

\* ToonParser::fail: what err holds after fail(msg)
fail(msg) == IF ~failed THEN msg ELSE err

\* a step that calls fail(msg), or calls nothing that fails (msg = "")
Fails(msg) ==
    IF msg = "" THEN UNCHANGED <<err, failed, fails>>
    ELSE /\ err' = fail(msg)
         /\ failed' = TRUE
         /\ fails' = Append(fails, msg)

\* the call parse_value() at offset k, the caller's frames being `base`
ValueCall(base, k) ==
    \E w \in {consume_whitespace(str, k)} :
        IF w < Len(str) /\ str[w + 1] = "["
        THEN /\ stack' = Append(base, ArrayFrame(-1))
             /\ i' = w
             /\ ret' = NoRet
             /\ Fails("")
        ELSE \E r \in {parse_value(str, k)} :
             /\ stack' = base
             /\ i' = r.i
             /\ ret' = [has |-> TRUE, val |-> r.val]
             /\ Fails(r.msg)

\* the call parse_array(parent) at offset k
ArrayCall(base, k, parent) ==
    /\ stack' = Append(base, ArrayFrame(parent))
    /\ i' = k
    /\ ret' = NoRet
    /\ Fails("")

\* the call parse_object(parent) at offset k
ObjectCall(base, k, parent) ==
    /\ stack' = Append(base, ObjectFrame(parent))
    /\ i' = k
    /\ ret' = NoRet
    /\ Fails("")

\* the innermost frame returns val with the offset at k
Return(val, k) ==
    /\ stack' = Below
    /\ i' = k
    /\ ret' = [has |-> TRUE, val |-> val]
    /\ Fails("")

\* the innermost frame goes on as frame f with the offset at k
Continue(f, k) ==
    /\ stack' = Append(Below, f)
    /\ i' = k
    /\ ret' = NoRet
    /\ Fails("")

RECURSIVE KeyEnd(_, _)
\* while (i < str.size() && str[i] != ':') key += str[i++];
KeyEnd(s, k) == IF k < Len(s) /\ s[k + 1] # ":" THEN KeyEnd(s, k + 1) ELSE k

\* in.find(':') != string::npos
HasColon(s) == \E n \in 1..Len(s) : s[n] = ":"

(***************************************************************************)
(* Decoder steps                                                           *)
(***************************************************************************)
\* Toon::parse up to its first call (lines 773-790); the parser object {in, 0, err, false}
\* is the state the call starts in
ParseStart ==
    /\ \/ pc = "dumped" /\ mode = "value"
       \/ pc = "start" /\ mode = "text"
    /\ \E g \in {consume_garbage(str, 0)} :
           IF g = Len(str)
           THEN /\ result' = Null
                /\ pc' = "done"
                /\ i' = g
                /\ UNCHANGED <<stack, ret, err, failed, fails>>
           ELSE /\ pc' = "parsing"
                /\ result' = result
                /\ IF str[g + 1] = "[" THEN ValueCall(<<>>, g)
                   ELSE IF HasColon(str) THEN ObjectCall(<<>>, g, -1)
                   ELSE ValueCall(<<>>, g)
    /\ UNCHANGED <<mode, v, level, str, list>>

\* Toon::parse returns what its call returned
ParseReturn ==
    /\ pc = "parsing" /\ stack = <<>> /\ ret.has
    /\ result' = ret.val
    /\ pc' = "done"
    /\ ret' = NoRet
    /\ UNCHANGED <<mode, v, level, str, i, err, failed, stack, fails, list>>

\* parse_array, lines 583-625: the header
ArrayHeader ==
    /\ InFrame("array", "header")
    /\ \E h \in {array_header(str, i)} :
           Continue([Top EXCEPT !.tabular = h.tabular, !.keys = h.keys, !.count = h.count,
                                !.pc = IF h.tabular THEN "tabrow" ELSE "elem"], h.i)
    /\ UNCHANGED <<mode, v, level, str, result, pc, list>>

\* parse_array, lines 630-656: the head of the tabular loop, up to the row's cells
TabRow ==
    /\ InFrame("array", "tabrow")
    /\ \E g \in {consume_garbage(str, i)} :
           IF i >= Len(str) THEN Return(ToonArray(Top.arr), i)
           ELSE IF g = Len(str) THEN Return(ToonArray(Top.arr), g)
           ELSE IF Top.parent_indent # -1 /\ get_indent(str, g) <= Top.parent_indent
           THEN Return(ToonArray(Top.arr), g)
           ELSE Continue([Top EXCEPT !.pc = "tabcell", !.obj = <<>>, !.j = 0, !.start = i], g)
    /\ UNCHANGED <<mode, v, level, str, result, pc, list>>

\* parse_array, lines 658-669 and 681-687: the next cell of the row is parsed, or the
\* row is short and ends the array, or the row is complete and is appended
TabCell ==
    /\ InFrame("array", "tabcell")
    /\ \E w \in {consume_whitespace(str, i)} :
           IF Top.j < Len(Top.keys)
           THEN IF w = Len(str) \/ str[w + 1] = "\n"
                THEN Return(ToonArray(Top.arr), w)
                ELSE ValueCall(Append(Below, [Top EXCEPT !.pc = "tabcellret"]), w)
           ELSE /\ Len(Top.arr) < MaxRows
                /\ Continue([Top EXCEPT !.pc = "tabrow",
                                        !.arr = Append(Top.arr, ToonObject(Top.obj))], i)
    /\ UNCHANGED <<mode, v, level, str, result, pc, list>>

\* parse_array, lines 670-678: the cell's value has been parsed
TabCellRet ==
    /\ InFrame("array", "tabcellret") /\ ret.has
    /\ \E w \in {consume_whitespace(str, i)} :
           IF failed THEN Return(Null, i)
           ELSE Continue([Top EXCEPT !.pc = "tabcell", !.j = Top.j + 1,
                                     !.obj = Assign(Top.obj, Top.keys[Top.j + 1], ret.val)],
                         IF Top.j < Len(Top.keys) - 1 /\ w < Len(str) /\ str[w + 1] = ","
                         THEN w + 1 ELSE w)
    /\ UNCHANGED <<mode, v, level, str, result, pc, list>>

\* parse_array, lines 693-703: the head of the loop of the explicit form, up to parse_value
Elem ==
    /\ InFrame("array", "elem")
    /\ \E g \in {consume_garbage(str, i)} :
           IF ~(Top.count < 0 \/ Top.k < Top.count) THEN Return(ToonArray(Top.arr), i)
           ELSE IF g = Len(str) THEN Return(ToonArray(Top.arr), g)
           ELSE ValueCall(Append(Below, [Top EXCEPT !.pc = "elemret", !.start = i]), g)
    /\ UNCHANGED <<mode, v, level, str, result, pc, list>>

\* parse_array, lines 703-710: the element has been parsed
ElemRet ==
    /\ InFrame("array", "elemret") /\ ret.has
    /\ \E w \in {consume_whitespace(str, i)} : \E arr \in {Append(Top.arr, ret.val)} :
           IF w < Len(str) /\ str[w + 1] = ","
           THEN Continue([Top EXCEPT !.pc = "elem", !.arr = arr, !.k = Top.k + 1], w + 1)
           ELSE IF Top.count < 0 THEN Return(ToonArray(arr), w)
           ELSE Continue([Top EXCEPT !.pc = "elem", !.arr = arr, !.k = Top.k + 1], w)
    /\ UNCHANGED <<mode, v, level, str, result, pc, list>>

\* parse_object, lines 729-765: the key from offset g to the ':' at offset ke has been
\* read on a line of indentation current_indent; the call that parses its value
ObjValue(g, ke, current_indent) ==
    \E base \in {Append(Below, [Top EXCEPT !.pc = "await", !.key = SubSeq(str, g + 1, ke),
                                            !.start = i])} :
    \E c \in {consume_whitespace(str, ke + 1)} :
        IF c < Len(str) /\ str[c + 1] = "\n"
        THEN \E n \in {consume_garbage(str, c + 1)} :
                 IF At(str, n) = "[" THEN ArrayCall(base, n, current_indent)
                 ELSE ObjectCall(base, n, current_indent)
        ELSE IF At(str, c) = "[" THEN ArrayCall(base, c, current_indent)
             ELSE ValueCall(base, c)

\* parse_object, lines 718-765: one turn of the loop up to the call that parses the value
ObjLoop ==
    /\ InFrame("object", "loop")
    /\ \E g \in {consume_garbage(str, i)} : \E ke \in {KeyEnd(str, g)} :
       \E current_indent \in {get_indent(str, g)} :
           IF i >= Len(str) THEN Return(ToonObject(Top.obj), i)
           ELSE IF current_indent <= Top.parent_indent /\ Top.obj # <<>>
           THEN Return(ToonObject(Top.obj), g)
           ELSE IF ke = Len(str) THEN Return(ToonObject(Top.obj), ke)
           ELSE ObjValue(g, ke, current_indent)
    /\ UNCHANGED <<mode, v, level, str, result, pc, list>>

\* parse_object: obj[key] = <the value the call returned>
ObjAssign ==
    /\ InFrame("object", "await") /\ ret.has
    /\ Continue([Top EXCEPT !.pc = "loop", !.obj = Assign(Top.obj, Top.key, ret.val)], i)
    /\ UNCHANGED <<mode, v, level, str, result, pc, list>>

(***************************************************************************)
(* Inputs                                                                  *)
(***************************************************************************)
AllSeqs(S, n) == UNION {[1..m -> S] : m \in 0..n}

PartialFns(K, S) == UNION {[D -> S] : D \in SUBSET K}

\* bytes that decide the quoting of a string
QuoteBytes == {"a", " ", "1", "-", ".", "+", "e", ","}

\* bytes that dump escapes, and a few it does not
EscapeBytes == {"SOH", "BS", "\t", "\n", "\f", "\r", "\"", "\\"}

NamedStrings ==
    { <<"n", "u", "l", "l">>, <<"t", "r", "u", "e">>, <<"f", "a", "l", "s", "e">>,
      <<"n", "u", "l", "l", "a", "b", "l", "e">>, <<"t", "r", "u", "e", "i", "s", "h">>,
      <<"N", "u", "l", "l">>, <<"1", "a", "b", "c">>, <<"-", "n", "a", "n">>,
      <<"a", ":", "b">>, <<"a", "#">>, <<"[", "a", "]">>, <<"{", "a", "}">>,
      <<"h", "e", "l", "l", "o", " ", "w", "o", "r", "l", "d">>,
      <<"h", "e", "l", "l", "o", ",", " ", "w", "o", "r", "l", "d">>,
      <<"\"", "a", "\"">>, <<"a", "\"", "b">> }

StringInputs == AllSeqs(QuoteBytes, MaxStrLen) \cup AllSeqs(EscapeBytes, MaxStrLen) \cup NamedStrings

Keys == {<<"a">>, <<"b">>}

Leaves == {Null, ToonInt(1), ToonString(<<"x">>)}

Objs(S) == {ToonObject(o) : o \in PartialFns(Keys, S)}

Arrs(S) == {ToonArray(a) : a \in AllSeqs(S, MaxArrLen)}

\* objects of scalars, arrays, objects; arrays of scalars and objects of scalars
Trees ==
    Leaves \cup Objs(Leaves \cup Objs(Leaves) \cup Arrs(Leaves)) \cup Arrs(Leaves \cup Objs(Leaves))

\* keys and cells of the arrays of uniform objects of integers (test_tabular: x, y)
TableKeys == {<<>>, <<"x">>, <<"y">>}

TableInts == {-7, 40}

\* non-empty arrays of objects that share one non-empty key set and hold integers
IntTables ==
    UNION {{ToonArray(a) : a \in AllSeqs({ToonObject(o) : o \in [D -> {ToonInt(n) : n \in TableInts}]},
                                         MaxArrLen) \ {<<>>}} : D \in (SUBSET TableKeys) \ {{}}}

ValueInputs == {ToonString(s) : s \in StringInputs} \cup Trees \cup IntTables

Fragments ==
    { <<"a", ":">>, <<" ">>, <<"\n">>, <<"\"">>, <<"\"", "\\", "x">>, <<"x">>, <<",">>,
      <<"[", "2", "]", ":">>, <<"[", "{", "a", "}", "]", ":">>, <<"1">> }

RECURSIVE Concat(_)
Concat(ss) == IF ss = <<>> THEN <<>> ELSE ss[1] \o Concat(Tail(ss))

\* texts handed to a later parse call with the same error string
ReparseInputs ==
    { <<"4", "2">>, <<"a", ":", " ", "1">>, <<"\"">>, <<"[", "1", "]", ":", " ", "\"", "\\", "x">> }

\* "bad: \"unterminated" and other texts of the documentation and the tests
NamedTexts ==
    { <<"b", "a", "d", ":", " ", "\"", "u", "n", "t", "e", "r", "m", "i", "n", "a", "t", "e", "d">>,
      <<"a", ":", " ", "\"", "\\", "u", "0", "0", "0", "1", "\"">>,
      <<"a", ":", " ", "\"", "\\", "u", "0">>,
      <<"a", ":", " ", "\"", "\\">>,
      <<"#", " ", "a", ":", "\n", "x">>,
      <<"n", "u", "l", "l">>, <<"t", "r", "u", "e", ",">>, <<"f", "a", "l", "s", "e", "y">>,
      <<"[", "{", "}", "]", ":", "x">>, <<"[", "3", "]", ":", " ", "]">>,
      <<"a", ":", " ", "\"", "\\", "u", "0", "0", "0", "1", "\n",
        "b", ":", " ", "[", "{", "}", "]", ":", "\n", " ", " ", "x">> }

\* a: / b: / c: 1 / d: 2 / e: 3 at indentations 0, 2, 4, 2, 0
NestedObjectsText ==
    <<"a", ":", "\n", " ", " ", "b", ":", "\n", " ", " ", " ", " ", "c", ":",
    " ", "1", "\n", " ", " ", "d", ":", " ", "2", "\n", "e", ":", " ", "3">>

\* o: / a: [{x}]: / 1 / b: 2 / c: 3 at indentations 0, 2, 4, 2, 0
NestedTableText ==
    <<"o", ":", "\n", " ", " ", "a", ":", " ", "[", "{", "x", "}", "]", ":",
    "\n", " ", " ", " ", " ", "1", "\n", " ", " ", "b", ":", " ", "2", "\n",
    "c", ":", " ", "3">>

TextInputs == {NestedObjectsText, NestedTableText} \cup {Concat(ss) : ss \in AllSeqs(Fragments, MaxFrags)} \cup NamedTexts \cup ReparseInputs

(***************************************************************************)
(* The codec: a caller encodes a value and decodes the text, or decodes a  *)
(* text, and may then decode again with the same error string.             *)
(***************************************************************************)
Init ==
    /\ \/ mode = "value" /\ v \in ValueInputs /\ str = <<>>
       \/ mode = "text" /\ v = Null /\ str \in TextInputs
    /\ level = 0
    /\ list = <<>>
    /\ i = 0
    /\ err = ""
    /\ failed = FALSE
    /\ stack = <<>>
    /\ ret = NoRet
    /\ result = Null
    /\ pc = "start"
    /\ fails = <<>>

\* std::string dump() const (toon.h): dump(out) at indent_level 0
Encode ==
    /\ pc = "start" /\ mode = "value"
    /\ str' = dump(v, 0)
    /\ pc' = "dumped"
    /\ UNCHANGED <<mode, v, level, i, err, failed, stack, ret, result, fails, list>>

\* the caller calls Toon::parse(in, err) again, with the error string of the call before
Again ==
    /\ pc = "done"
    /\ mode' = "text"
    /\ v' = Null
    /\ str' \in ReparseInputs
    /\ i' = 0
    /\ failed' = FALSE
    /\ stack' = <<>>
    /\ ret' = NoRet
    /\ result' = Null
    /\ pc' = "start"
    /\ fails' = <<>>
    /\ UNCHANGED <<level, err, list>>

Next ==
    \/ Encode
    \/ ParseStart
    \/ ParseReturn
    \/ ArrayHeader
    \/ TabRow
    \/ TabCell
    \/ TabCellRet
    \/ Elem
    \/ ElemRet
    \/ ObjLoop
    \/ ObjAssign
    \/ Again

Spec == Init /\ [][Next]_vars

(***************************************************************************)
(* The encoder alone: a caller constructs a value and encodes it at an     *)
(* indentation level, Toon::dump(out, indent_level).                       *)
(***************************************************************************)
PairKeys == {<<"a">>, <<"b">>, <<"B">>, <<"a", "b">>}

Scalars == {Null, ToonInt(30), ToonString(<<"N", "e", "w", " ", "Y", "o", "r", "k">>)}

PairSeqs == AllSeqs(PairKeys \X Scalars, MaxPairs)

DumpValues ==
    Trees \cup {ToonBool(TRUE), ToonBool(FALSE), ToonInt(42), ToonInt(-7), ToonDouble(30, 0),
                ToonString(<<>>), ToonString(<<"h", "i">>)}

DumpInit ==
    /\ mode = "dump"
    /\ \/ pc = "start" /\ list \in PairSeqs /\ v = Null
       \/ pc = "built" /\ list = <<>> /\ v \in DumpValues
    /\ level \in 0..MaxLevel
    /\ str = <<>>
    /\ i = 0
    /\ err = ""
    /\ failed = FALSE
    /\ stack = <<>>
    /\ ret = NoRet
    /\ result = Null
    /\ fails = <<>>

\* Toon(Toon::object{{k1, v1}, ...})
Construct ==
    /\ pc = "start" /\ mode = "dump"
    /\ v' = ToonObject(MakeObject(list))
    /\ pc' = "built"
    /\ UNCHANGED <<mode, level, str, i, err, failed, stack, ret, result, fails, list>>

\* v.dump(out, level) on an empty out
DumpAt ==
    /\ pc = "built" /\ mode = "dump"
    /\ str' = dump(v, level)
    /\ pc' = "dumped"
    /\ UNCHANGED <<mode, v, level, i, err, failed, stack, ret, result, fails, list>>

DumpNext ==
    \/ Construct
    \/ DumpAt

DumpSpec == DumpInit /\ [][DumpNext]_vars

(***************************************************************************)
(* Properties                                                              *)
(***************************************************************************)
\* the numeric value of a Number, as a normalised decimal
NumberValue(x) == IF x.k = "int" THEN Norm(x.n, 0) ELSE [m |-> x.m, e |-> x.e]

RECURSIVE StructEq(_, _)
\* structural equality: numbers by value, arrays element by element in order, objects
\* key by key whatever the order of the keys
StructEq(x, y) ==
    /\ x.t = y.t
    /\ CASE x.t = "NUMBER" -> NumberValue(x) = NumberValue(y)
         [] x.t = "ARRAY"  -> /\ Len(x.a) = Len(y.a)
                              /\ \A n \in 1..Len(x.a) : StructEq(x.a[n], y.a[n])
         [] x.t = "OBJECT" -> /\ DOMAIN x.o = DOMAIN y.o
                              /\ \A key \in DOMAIN x.o : StructEq(x.o[key], y.o[key])
         [] OTHER -> x = y

IsScalar(x) == x.t \notin {"ARRAY", "OBJECT"}

HasPrefix(s, pre) == Len(pre) <= Len(s) /\ SubSeq(s, 1, Len(pre)) = pre

CountByte(s, c) == Cardinality({n \in 1..Len(s) : s[n] = c})

\* the orderings of a finite set: the sequences that hold each element once
Orderings(S) ==
    {ks \in [1..Cardinality(S) -> S] : \A p, q \in 1..Cardinality(S) : p # q => ks[p] # ks[q]}

Ascending(ks) == \A n \in 1..(Len(ks) - 1) : StrLess(ks[n], ks[n + 1])

Keywords == {<<"n", "u", "l", "l">>, <<"t", "r", "u", "e">>, <<"f", "a", "l", "s", "e">>}

\* the whole string is a numeric literal
NumericLiteral(s) == s # <<>> /\ ~isspace(s[1]) /\ strtod(s).end = Len(s)

HasSpecial(s) == \E n \in 1..Len(s) : s[n] \in special

\* text is s enclosed in double quotes (and is not s itself)
Enclosed(text, s) ==
    /\ text # s
    /\ Len(text) >= 2
    /\ text[1] = "\"" /\ text[Len(text)] = "\""

\* a string value has been encoded by dump()
EncodedString == mode = "value" /\ pc # "start" /\ v.t = "STRING"

\* a value has been encoded and the text decoded
RoundTripDone == mode = "value" /\ pc = "done"

\* C1: for every Value tree without non-finite numbers, Toon::parse(v.dump()) reports no
\* error and returns a value structurally equal to v.
C1_RoundTrip == RoundTripDone => (err = "" /\ StructEq(result, v))

\* C2: when Toon::parse records no hard failure, the error string handed back is empty,
\* whatever it held before the call.
C2_ErrorEmptyOnSuccess == (pc = "done" /\ ~failed) => err = ""

\* C3: when Toon::parse records a hard failure, the value it returns is Null, wherever
\* in the nesting the failure happened.
C3_NullOnFailure == (pc = "done" /\ failed) => result = Null

\* C4: once the first hard failure of a parse call has been recorded, the error message
\* never changes again during that call: a later fail() leaves the first message in place.
C4_StickyError == [][failed => err' = err]_vars

\* a parse call in which fail() was called again, with another message than the first
C4_Witness == Len(fails) >= 2 /\ fails[2] # fails[1] /\ err = fails[1]

\* every element is an Object with the key set of the first
SameKeySets(a) ==
    \A n \in 1..Len(a) : a[n].t = "OBJECT" /\ a[1].t = "OBJECT" /\ DOMAIN a[n].o = DOMAIN a[1].o

\* the tabular form: the header [{k1, k2, ...}]: of the ascending keys, then one row per
\* element (a row is one line when its cells are scalars)
TabularText(text, a) ==
    /\ \E ks \in Orderings(DOMAIN a[1].o) :
           /\ Ascending(ks)
           /\ HasPrefix(text, <<"[", "{">> \o JoinKeys(ks) \o <<"}", "]", ":", "\n">>)
    /\ (\A n \in 1..Len(a) : \A key \in DOMAIN a[n].o : IsScalar(a[n].o[key]))
           => CountByte(text, "\n") = Len(a)

\* the verbose form [N]: e1, e2, ...
VerboseText(text, a) ==
    /\ HasPrefix(text, <<"[">> \o IntDigits(Len(a)) \o <<"]", ":", " ">>)
    /\ (\A n \in 1..Len(a) : IsScalar(a[n])) => CountByte(text, ",") = Len(a) - 1

\* a non-empty array has been encoded by dump(out, level)
ArrayDumped == mode = "dump" /\ pc = "dumped" /\ v.t = "ARRAY" /\ v.a # <<>>

\* C5 as stated: dump emits the tabular form iff the array is non-empty and every
\* element is an Object with the key set of the first, the empty key set included; the
\* verbose form otherwise.
C5_TabularIffSameKeys ==
    ArrayDumped =>
        IF SameKeySets(v.a) THEN TabularText(str, v.a) ELSE VerboseText(str, v.a)

\* C5 as amended: dump emits the tabular form iff the array is non-empty, every element
\* is an Object with the key set of the first, and that key set is not empty; the
\* verbose form otherwise.
C5_TabularIffSameNonEmptyKeys ==
    ArrayDumped =>
        IF SameKeySets(v.a) /\ DOMAIN v.a[1].o # {}
        THEN TabularText(str, v.a) /\ ~VerboseText(str, v.a)
        ELSE VerboseText(str, v.a) /\ ~HasPrefix(str, <<"[", "{">>)

\* arrays of objects with one key set in tabular form, at an indentation level above 0
C5_Witness ==
    /\ ArrayDumped /\ level > 0 /\ Len(v.a) >= 2
    /\ SameKeySets(v.a) /\ Cardinality(DOMAIN v.a[1].o) = 2
    /\ HasPrefix(str, <<"[", "{">>)

\* C6 as stated: dump encloses a String in double quotes iff it is empty, or is null,
\* true or false, or is a numeric literal whatever its first byte, or holds one of
\* , : newline [ ] { } #; otherwise it emits the string as it is.
C6_QuotedIffAnyNumeric ==
    EncodedString =>
        IF v.s = <<>> \/ v.s \in Keywords \/ NumericLiteral(v.s) \/ HasSpecial(v.s)
        THEN Enclosed(str, v.s)
        ELSE str = v.s

\* C6 as amended: the numeric literals that are quoted are those that begin with a digit
\* or '-'.
C6_QuotedIffLeadingNumeric ==
    EncodedString =>
        IF \/ v.s = <<>>
           \/ v.s \in Keywords
           \/ NumericLiteral(v.s) /\ (isdigit(v.s[1]) \/ v.s[1] = "-")
           \/ HasSpecial(v.s)
        THEN Enclosed(str, v.s)
        ELSE str = v.s

\* a numeric literal with a leading '-' has been quoted
C6_Witness ==
    /\ EncodedString /\ Len(v.s) >= 2 /\ v.s[1] = "-" /\ NumericLiteral(v.s)
    /\ Enclosed(str, v.s)

\* C7: every String that dump emits without quotes (non-empty, not null/true/false, not a
\* number, none of , : newline [ ] { } #) decodes back to the identical String.
C7_UnquotedRoundTrip ==
    (/\ RoundTripDone /\ v.t = "STRING"
     /\ v.s # <<>> /\ v.s \notin Keywords /\ ~NumericLiteral(v.s) /\ ~HasSpecial(v.s))
        => (err = "" /\ result = ToonString(v.s))

\* C8: every string made of control bytes, double quotes and backslashes decodes, after
\* dump, to a String with exactly its bytes, and no error is reported.
C8_EscapeRoundTrip ==
    (/\ RoundTripDone /\ v.t = "STRING"
     /\ \A n \in 1..Len(v.s) : Ord[v.s[n]] <= 31 \/ v.s[n] \in {"\"", "\\"})
        => (err = "" /\ result = ToonString(v.s))

\* C9: dump of an empty Array is exactly [0]: and dump of an empty Object is the empty
\* text, at every indentation level.
C9_EmptyContainers ==
    (mode = "dump" /\ pc = "dumped") =>
        /\ v = ToonArray(<<>>) => str = <<"[", "0", "]", ":">>
        /\ v = ToonObject(<<>>) => str = <<>>

\* an empty array has been encoded at an indentation level above 0
C9_Witness == mode = "dump" /\ pc = "dumped" /\ level > 0 /\ v = ToonArray(<<>>)

\* key: value, and the separator before every entry but the first
EntriesText(o, ks, lvl) ==
    LET f[n \in 0..Len(ks)] ==
            IF n = 0 THEN <<>>
            ELSE f[n - 1] \o (IF n > 1 THEN <<"\n">> \o indent(lvl) ELSE <<>>)
                          \o ks[n] \o <<":", " ">> \o dump(o[ks[n]], 0)
    IN  f[Len(ks)]

\* an Object of scalars has been encoded by dump(out, level)
ScalarObjectDumped ==
    /\ mode = "dump" /\ pc = "dumped" /\ v.t = "OBJECT"
    /\ \A key \in DOMAIN v.o : IsScalar(v.o[key])

\* C10: dump of an Object of scalars emits one key: value entry per key supplied, in
\* ascending byte order of the keys whatever the order at construction, entries separated
\* by a newline and two spaces per level, nothing before the first and after the last.
C10_SortedEntries ==
    ScalarObjectDumped =>
        /\ list # <<>> => DOMAIN v.o = {list[n][1] : n \in 1..Len(list)}
        /\ \E ks \in Orderings(DOMAIN v.o) : Ascending(ks) /\ str = EntriesText(v.o, ks, level)

\* entries supplied in descending key order, encoded at an indentation level above 0
C10_Witness ==
    /\ ScalarObjectDumped /\ level > 0 /\ Len(list) >= 2
    /\ StrLess(list[2][1], list[1][1])
    /\ Cardinality(DOMAIN v.o) >= 2

\* a non-empty array of objects that share one non-empty key set, the keys free of special
\* characters and whitespace, the cells integers
IntTable(x) ==
    /\ x.t = "ARRAY" /\ x.a # <<>>
    /\ SameKeySets(x.a) /\ DOMAIN x.a[1].o # {}
    /\ \A key \in DOMAIN x.a[1].o : \A n \in 1..Len(key) : key[n] \notin special /\ ~isspace(key[n])
    /\ \A n \in 1..Len(x.a) : \A key \in DOMAIN x.a[n].o :
           x.a[n].o[key].t = "NUMBER" /\ x.a[n].o[key].k = "int"

\* row is an Object that maps every key of orig to the numeric value orig maps it to
SameRow(row, orig) ==
    /\ row.t = "OBJECT"
    /\ DOMAIN row.o = DOMAIN orig.o
    /\ \A key \in DOMAIN orig.o :
           row.o[key].t = "NUMBER" /\ NumberValue(row.o[key]) = NumberValue(orig.o[key])

\* C11: for every non-empty top-level array of objects of integers that share one non-empty
\* key set, Toon::parse(arr.dump()) reports no error and returns an Array of as many
\* elements, element n holding for every key the number the n-th original holds; while
\* the text is decoded, the rows stored so far are the first elements of the original.
C11_TabularIntRoundTrip ==
    (mode = "value" /\ IntTable(v)) =>
        /\ pc = "done" =>
               /\ err = ""
               /\ result.t = "ARRAY" /\ Len(result.a) = Len(v.a)
               /\ \A n \in 1..Len(v.a) : SameRow(result.a[n], v.a[n])
        /\ (pc = "parsing" /\ stack # <<>> /\ stack[1].fn = "array") =>
               /\ Len(stack[1].arr) <= Len(v.a)
               /\ \A n \in 1..Len(stack[1].arr) : SameRow(stack[1].arr[n], v.a[n])

RECURSIVE ClosingQuote(_, _)
\* the offset of the first double quote at or after offset k that no backslash escapes,
\* -1 when there is none
ClosingQuote(s, k) ==
    IF k >= Len(s) THEN -1
    ELSE IF s[k + 1] = "\\" THEN ClosingQuote(s, k + 2)
    ELSE IF s[k + 1] = "\"" THEN k
    ELSE ClosingQuote(s, k + 1)

\* a double quote at offset k opens a string that the text does not close
Unterminated(s, k) == At(s, k) = "\"" /\ ClosingQuote(s, k + 1) = -1

\* the first double quote of the text opens a string that the text does not close
EndsInsideString(s) ==
    \E k \in 0..(Len(s) - 1) :
        /\ Unterminated(s, k)
        /\ \A n \in 1..k : s[n] # "\""

\* the messages of parse_quoted_string
QuotedStringErrors ==
    {"unfinished string", "unfinished escape", "invalid escape",
     "unfinished unicode escape", "invalid unicode escape"}

\* the running parse call has failed in a quoted string
QuotedStringFailed == failed /\ fails # <<>> /\ fails[1] \in QuotedStringErrors

\* the step ends a turn of the row loop of the tabular form with a row stored
RowStored ==
    /\ InFrame("array", "tabcell")
    /\ Len(stack') = Len(stack)
    /\ stack'[Len(stack)].pc = "tabrow"

\* C12: when the input ends inside a quoted string value (an opening double quote with no
\* unescaped closing double quote before the end of input), parse_quoted_string called at
\* that quote records a non-empty message, and once it has, Toon::parse returns with a
\* non-empty error message: every turn of a row loop that stores a row has moved the
\* offset, and err is not empty when the call is done.
C12_UnterminatedString ==
    [][EndsInsideString(str) =>
        /\ \A k \in 0..(Len(str) - 1) :
               Unterminated(str, k) => parse_quoted_string(str, k).msg \in QuotedStringErrors
        /\ (QuotedStringFailed /\ pc' = "done") => err' # ""
        /\ (QuotedStringFailed /\ RowStored) => i' > Top.start]_vars

\* C13: once the failed flag is set during a Toon::parse call, the offset does not move
\* again and nothing more is parsed or stored: every step is the return of the innermost
\* frame to its caller, or the return of Toon::parse.
C13_UnwindAfterFailure ==
    [][(pc = "parsing" /\ failed) =>
        /\ i' = i
        /\ IF stack = <<>> THEN pc' = "done" ELSE stack' = Below]_vars

\* the text holds a ':' at or after offset k
ColonFrom(s, k) == \E n \in (k + 1)..Len(s) : s[n] = ":"

\* the step is the start of a Toon::parse call on a text that holds more than noise
Dispatches == pc \in {"start", "dumped"} /\ pc' = "parsing"

\* C14: when the first significant character (after leading whitespace, blank lines and
\* comments) is not '[', Toon::parse parses the input as a top-level object exactly when
\* the input from that character onward holds a ':', and as a single value otherwise; a
\* ':' in the skipped noise alone does not make the input an object.
C14_TopLevelDispatch ==
    [][Dispatches =>
        \A g \in {consume_garbage(str, 0)} :
            At(str, g) # "[" =>
                IF ColonFrom(str, g)
                THEN stack' = <<ObjectFrame(-1)>> /\ i' = g
                ELSE stack' = <<>> /\ ret'.has /\ ret'.val = parse_value(str, g).val]_vars

\* the indentation of the line that holds offset k: its leading spaces, and 8 for a tab
LineIndent(s, k) ==
    LET m == CHOOSE m \in 0..k : /\ m = 0 \/ s[m] = "\n"
                                 /\ \A n \in (m + 1)..k : s[n] # "\n"
        e == CHOOSE e \in m..Len(s) : /\ \A n \in (m + 1)..e : s[n] \in {" ", "\t"}
                                      /\ e = Len(s) \/ s[e + 1] \notin {" ", "\t"}
    IN  Cardinality({n \in (m + 1)..e : s[n] = " "}) + 8 * Cardinality({n \in (m + 1)..e : s[n] = "\t"})

\* the offset of the content of the next significant line, seen from the loop head
NextLine == consume_garbage(str, i)

\* parse_object is at its loop head and there is a next significant line
AtObjectLine == InFrame("object", "loop") /\ i < Len(str) /\ NextLine < Len(str)

\* parse_array is at the head of its row loop, called with a threshold, and there is a
\* next significant line
AtRowLine ==
    /\ InFrame("array", "tabrow") /\ Top.parent_indent # -1
    /\ i < Len(str) /\ NextLine < Len(str)

\* the innermost frame returns val with the offset at the content of the next line
ReturnsAtLine(val) ==
    /\ stack' = Below
    /\ i' = NextLine
    /\ ret' = [has |-> TRUE, val |-> val]

\* the innermost frame keeps the line: it reads the key that begins the line
KeepsLine ==
    /\ Len(stack') >= Len(stack)
    /\ stack'[Len(stack)].pc = "await"
    /\ stack'[Len(stack)].key = SubSeq(str, NextLine + 1, KeyEnd(str, NextLine))
    /\ stack'[Len(stack)].obj = Top.obj

\* C15: parse_object with threshold parent_indent that holds an entry returns at a next
\* significant line of indentation not greater than parent_indent, with the offset at the
\* content of that line and the object as it is, at every depth; a tabular array called
\* with a threshold does the same; and an object whose threshold is smaller than the
\* indentation of the line (or that holds no entry) reads the key of the line, so that
\* the key is an entry of the nearest enclosing object with a smaller threshold.
C15_UnNesting ==
    [][/\ (AtObjectLine /\ Top.obj # <<>> /\ LineIndent(str, NextLine) <= Top.parent_indent)
            => ReturnsAtLine(ToonObject(Top.obj))
       /\ (AtRowLine /\ LineIndent(str, NextLine) <= Top.parent_indent)
            => ReturnsAtLine(ToonArray(Top.arr))
       /\ (/\ AtObjectLine /\ KeyEnd(str, NextLine) < Len(str)
           /\ Top.obj = <<>> \/ LineIndent(str, NextLine) > Top.parent_indent)
            => KeepsLine]_vars

\* both texts have been decoded: d is an entry of a and not of b, e of the top-level
\* object; b is an entry of o after the rows of a, c of the top-level object
C15_Witness ==
    /\ pc = "done" /\ err = ""
    /\ \/ /\ str = NestedObjectsText
          /\ StructEq(result, ToonObject(
                 (<<"a">> :> ToonObject((<<"b">> :> ToonObject(<<"c">> :> ToonInt(1)))
                                        @@ (<<"d">> :> ToonInt(2))))
                 @@ (<<"e">> :> ToonInt(3))))
       \/ /\ str = NestedTableText
          /\ StructEq(result, ToonObject(
                 (<<"o">> :> ToonObject((<<"a">> :> ToonArray(<<ToonObject(<<"x">> :> ToonInt(1))>>))
                                        @@ (<<"b">> :> ToonInt(2))))
                 @@ (<<"c">> :> ToonInt(3))))

\* the bytes that end a token: the special characters, inline whitespace and newline
Delimiters == special \cup {" ", "\t", "\r", "\n"}

RECURSIVE TokenEnd(_, _)
\* the offset after the token that begins at offset k
TokenEnd(s, k) == IF k < Len(s) /\ s[k + 1] \notin Delimiters THEN TokenEnd(s, k + 1) ELSE k

\* the token at the first significant character of the text
FirstToken(s) ==
    LET g == consume_garbage(s, 0) IN SubSeq(s, g + 1, TokenEnd(s, g))

\* Toon::parse has decoded, as one value, a text that begins (after the noise) with a
\* token and holds no ':'
TokenDecoded ==
    /\ pc = "done" /\ ~failed
    /\ ~ColonFrom(str, 0)
    /\ FirstToken(str) # <<>>
    /\ FirstToken(str)[1] \notin {"\"", "["}

\* C16: parse_value yields Null, true or false only when the text at the cursor is exactly
\* null, true or false followed by a delimiter or the end of input; a token that begins
\* with these letters and goes on (nullable, trueish) is decoded as one String that holds
\* the whole token, and nothing of the token is left unconsumed.
C16_KeywordDispatch ==
    TokenDecoded =>
        /\ result = Null => FirstToken(str) = <<"n", "u", "l", "l">>
        /\ result = ToonBool(TRUE) => FirstToken(str) = <<"t", "r", "u", "e">>
        /\ result = ToonBool(FALSE) => FirstToken(str) = <<"f", "a", "l", "s", "e">>
        /\ (/\ FirstToken(str) \notin Keywords
            /\ \E w \in Keywords : HasPrefix(FirstToken(str), w))
               => /\ result.t = "STRING" /\ HasPrefix(result.s, FirstToken(str))
                  /\ i >= TokenEnd(str, consume_garbage(str, 0))

\* the step ends a turn of the row loop, of the loop of the explicit form or of the loop
\* of parse_object, and the loop goes on
TurnEnds ==
    /\ pc = "parsing" /\ stack # <<>>
    /\ Len(stack') = Len(stack)
    /\ \/ Top.pc = "tabcell" /\ stack'[Len(stack)].pc = "tabrow"
       \/ /\ Top.pc = "elemret" /\ stack'[Len(stack)].pc = "elem"
          /\ Top.count < 0 \/ stack'[Len(stack)].k < Top.count
       \/ Top.pc = "await" /\ stack'[Len(stack)].pc = "loop"

\* C17: Toon::parse terminates on every finite text: every turn of the row loop, of the
\* loop of the explicit form and of the loop of parse_object either has moved the offset
\* past the offset at which the turn began or has ended the loop, also for a header
\* without keys and for rows and elements that begin with a special character.
C17_LoopsConsume == [][TurnEnds => i' > Top.start]_vars

====
